---- MODULE Spec2Model ----
(***************************************************************************)
(* Model of the earn-quest submission workflow                             *)
(* (Contract/earn-quest/src/submission.rs, types.rs).                      *)
(*                                                                         *)
(* The workflow (submit_proof and the three read operations) is translated *)
(* from submission.rs.  The storage module it calls (crate::storage) and   *)
(* the collaborators that own the ledger clock and the Quest records are   *)
(* outside these two files; they are modelled from the                    *)
(* specification's repository contracts (sections 4.1, 4.2, 5 and 6).      *)
(***************************************************************************)
EXTENDS Integers, Sequences, FiniteSets, TLC

(***************************************************************************)
(* Bounds of the model                                                     *)
(***************************************************************************)
\* largest ledger timestamp the host reaches
MaxClock == 2

\* number of bytes of a proof hash: BytesN<32>
HashLen == 32

(***************************************************************************)
(* Identifiers: Symbol, Address                                            *)
(***************************************************************************)
\* quests created by the quest administration collaborator
KnownQuests == {"q1", "q2"}
\* "q9" never has a Quest record
QuestIds == KnownQuests \cup {"q9"}
Users == {"alice", "bob"}
\* the deadline each quest was created with: q1 is open until time 1, q2
\* until time 0
DeadlineOf == ("q1" :> 1) @@ ("q2" :> 0)

(***************************************************************************)
(* types.rs                                                                *)
(***************************************************************************)
QuestStatus == {"Active", "Paused", "Completed", "Expired"}
SubmissionStatus == {"Pending", "Approved", "Rejected", "Paid"}

\* BytesN::from_array(env, &[0u8; 32])
zero_hash == [i \in 1..HashLen |-> 0]
\* a digest that differs from zero_hash in its last byte only
HashLow == [i \in 1..HashLen |-> IF i = HashLen THEN 1 ELSE 0]
Hashes == {zero_hash, HashLow}

\* the fields of Quest the workflow can observe
Quest(id, deadline, status) ==
    [id |-> id, deadline |-> deadline, status |-> status, total_claims |-> 0]

VARIABLES
    clock,                \* env.ledger().timestamp()
    quests,               \* Quest records, by quest id (partial map)
    submissions,          \* Submission records, by <<quest_id, submitter>> (partial map)
    submissions_by_quest, \* quest id -> sequence of submitters
    submissions_by_user,  \* user -> sequence of quest ids
    events,               \* events emitted so far
    okLog,                \* observer: the <<quest_id, submitter>> of every call that returned Ok
    okArgs,               \* observer: the <<proof_hash, clock>> of those calls, in the same order
    inflight,             \* submit_proof invocations in progress, when steps may interleave
    last                  \* the invocation that has just completed and what it returned

vars == <<clock, quests, submissions, submissions_by_quest, submissions_by_user,
          events, okLog, okArgs, inflight, last>>

\* everything an invocation can write
store == <<submissions, submissions_by_quest, submissions_by_user, events>>

(***************************************************************************)
(* crate::storage, modelled from the repository contracts of the           *)
(* specification (4.1 Quest Repository, 4.2 Submission Repository).        *)
(* A store value is the record of everything an invocation can write.      *)
(***************************************************************************)
CurrentStore ==
    [submissions |-> submissions,
     submissions_by_quest |-> submissions_by_quest,
     submissions_by_user |-> submissions_by_user,
     events |-> events]

\* storage::get_quest: whether the Quest Repository holds a record for the id
has_quest(quest_id) == quest_id \in DOMAIN quests

\* storage::get_quest: the record (the caller has checked has_quest)
get_quest(quest_id) == quests[quest_id]

\* storage::submission_exists: point lookup on the composite key
submission_exists(s, quest_id, submitter) ==
    <<quest_id, submitter>> \in DOMAIN s.submissions

\* the first write of create: AlreadyExists when the key is occupied,
\* otherwise the primary record is written
create_primary(s, submission) ==
    LET key == <<submission.quest_id, submission.submitter>>
    IN  IF key \in DOMAIN s.submissions
        THEN [err |-> "AlreadyExists", store |-> s]
        ELSE [err |-> "Ok",
              store |-> [s EXCEPT !.submissions = (key :> submission) @@ @]]

\* the second write of create: the submitter is appended to the quest's index
create_index_quest(s, quest_id, submitter) ==
    [s EXCEPT !.submissions_by_quest[quest_id] = Append(@, submitter)]

\* storage::store_submission: the repository's create.  AlreadyExists when the
\* key is occupied; otherwise the primary record is written, then the quest
\* index is appended to.  (The user index is appended by add_user_submission,
\* which the workflow calls next.)
store_submission(s, submission) ==
    LET created == create_primary(s, submission)
    IN  IF created.err # "Ok" THEN created
        ELSE [err |-> "Ok",
              store |-> create_index_quest(created.store, submission.quest_id,
                                           submission.submitter)]

\* storage::add_user_submission: append the quest id to the user's index
add_user_submission(s, submitter, quest_id) ==
    [err |-> "Ok",
     store |-> [s EXCEPT !.submissions_by_user[submitter] = Append(@, quest_id)]]

\* storage::get_submission: the repository's get
storage_get_submission(quest_id, submitter) ==
    IF <<quest_id, submitter>> \in DOMAIN submissions
    THEN [err |-> "Ok", val |-> <<submissions[<<quest_id, submitter>>]>>]
    ELSE [err |-> "NotFound", val |-> <<>>]

\* storage::get_user_submissions: the repository's list_by_user
storage_get_user_submissions(user) == submissions_by_user[user]

\* mutant of emit: submitter and quest id change places in the payload
emit_swapped(s, quest_id, submitter, proof_hash) ==
    [s EXCEPT !.events = Append(@, <<submitter, quest_id, proof_hash>>)]

\* events::emit(env, Symbol::new(env, "proof_submitted"), (quest_id, submitter, proof_hash))
emit(s, quest_id, submitter, proof_hash) ==
    [s EXCEPT !.events = Append(@, <<quest_id, submitter, proof_hash>>)]

(***************************************************************************)
(* submission.rs: submit_proof                                             *)
(***************************************************************************)
\* mutant of quest_is_active: a Paused quest is let through
quest_is_active_or_paused(quest) == quest.status \in {"Active", "Paused"}

\* match quest.status { QuestStatus::Active => {}, _ => return Err(InvalidQuestStatus) }
quest_is_active(quest) == quest.status = "Active"

\* mutant of quest_has_expired: the deadline itself is already too late
quest_has_expired_at_deadline(current_timestamp, quest) ==
    current_timestamp >= quest.deadline

\* mutant of quest_has_expired: the comparison is the wrong way round
quest_has_expired_reversed(current_timestamp, quest) ==
    quest.deadline > current_timestamp

\* mutant of quest_has_expired: one tick of grace after the deadline
quest_has_expired_late(current_timestamp, quest) ==
    current_timestamp > quest.deadline + 1

\* if current_timestamp > quest.deadline { return Err(QuestExpired) }
quest_has_expired(current_timestamp, quest) == current_timestamp > quest.deadline

\* mutant of is_zero_hash: the digest is compared with [1u8; 32]
is_ones_hash(proof_hash) == \A i \in 1..HashLen : proof_hash[i] = 1

\* proof_hash == zero_hash, the comparison of two BytesN<32>
is_zero_hash(proof_hash) == \A i \in 1..HashLen : proof_hash[i] = zero_hash[i]

\* mutant of new_submission: the record is stamped with the time that is
\* left until the deadline
new_submission_time_left(quest_id, submitter, proof_hash, current_timestamp) ==
    [quest_id |-> quest_id,
     submitter |-> submitter,
     proof_hash |-> proof_hash,
     status |-> "Pending",
     timestamp |-> get_quest(quest_id).deadline - current_timestamp]

\* mutant of new_submission: the record starts as Approved
new_submission_approved(quest_id, submitter, proof_hash, current_timestamp) ==
    [quest_id |-> quest_id,
     submitter |-> submitter,
     proof_hash |-> proof_hash,
     status |-> "Approved",
     timestamp |-> current_timestamp]

\* let submission = Submission { ... }
new_submission(quest_id, submitter, proof_hash, current_timestamp) ==
    [quest_id |-> quest_id,
     submitter |-> submitter,
     proof_hash |-> proof_hash,
     status |-> "Pending",
     timestamp |-> current_timestamp]

\* mutant of submit_writes: the user index is appended to twice
submit_writes_user_index_twice(s, quest_id, submitter, proof_hash, current_timestamp) ==
    LET stored == store_submission(s,
                      new_submission(quest_id, submitter, proof_hash, current_timestamp))
    IN  IF stored.err # "Ok" THEN [err |-> stored.err, store |-> stored.store]
        ELSE LET added == add_user_submission(stored.store, submitter, quest_id)
                 again == add_user_submission(added.store, submitter, quest_id)
             IN  [err |-> "Ok",
                  store |-> emit(again.store, quest_id, submitter, proof_hash)]

\* mutant of submit_writes: the user index is not appended to
submit_writes_no_user_index(s, quest_id, submitter, proof_hash, current_timestamp) ==
    LET stored == store_submission(s,
                      new_submission(quest_id, submitter, proof_hash, current_timestamp))
    IN  IF stored.err # "Ok" THEN [err |-> stored.err, store |-> stored.store]
        ELSE [err |-> "Ok",
              store |-> emit(stored.store, quest_id, submitter, proof_hash)]

\* the writes of submit_proof once every guard has passed (lines 49-64).
\* `?` returns the callee's error at once; an invocation that returns Err
\* after a write is aborted as a whole by the host (it commits or fully aborts)
submit_writes(s, quest_id, submitter, proof_hash, current_timestamp) ==
    LET stored == store_submission(s,
                      new_submission(quest_id, submitter, proof_hash, current_timestamp))
    IN  IF stored.err # "Ok" THEN [err |-> stored.err, store |-> stored.store]
        ELSE LET added == add_user_submission(stored.store, submitter, quest_id)
             IN  IF added.err # "Ok" THEN [err |-> added.err, store |-> s]
                 ELSE [err |-> "Ok",
                       store |-> emit(added.store, quest_id, submitter, proof_hash)]

\* mutant of submit_proof: no duplicate check, and the Result of
\* store_submission is dropped instead of propagated
submit_proof_unchecked(s, current_timestamp, quest_id, submitter, proof_hash) ==
    IF ~has_quest(quest_id)
    THEN [err |-> "QuestNotFound", store |-> s]
    ELSE IF ~quest_is_active(get_quest(quest_id))
    THEN [err |-> "InvalidQuestStatus", store |-> s]
    ELSE IF quest_has_expired(current_timestamp, get_quest(quest_id))
    THEN [err |-> "QuestExpired", store |-> s]
    ELSE IF is_zero_hash(proof_hash)
    THEN [err |-> "InvalidProofHash", store |-> s]
    ELSE LET stored == store_submission(s,
                 new_submission(quest_id, submitter, proof_hash, current_timestamp))
             added == add_user_submission(stored.store, submitter, quest_id)
         IN  [err |-> "Ok",
              store |-> emit(added.store, quest_id, submitter, proof_hash)]

\* mutant of submit_proof: no duplicate check, and the record is written with
\* a plain put that replaces what is stored under the key
submit_proof_overwriting(s, current_timestamp, quest_id, submitter, proof_hash) ==
    IF ~has_quest(quest_id)
    THEN [err |-> "QuestNotFound", store |-> s]
    ELSE IF ~quest_is_active(get_quest(quest_id))
    THEN [err |-> "InvalidQuestStatus", store |-> s]
    ELSE IF quest_has_expired(current_timestamp, get_quest(quest_id))
    THEN [err |-> "QuestExpired", store |-> s]
    ELSE IF is_zero_hash(proof_hash)
    THEN [err |-> "InvalidProofHash", store |-> s]
    ELSE LET put == [s EXCEPT !.submissions =
                        (<<quest_id, submitter>> :>
                            new_submission(quest_id, submitter, proof_hash,
                                           current_timestamp)) @@ @]
             added == add_user_submission(put, submitter, quest_id)
         IN  [err |-> "Ok",
              store |-> emit(added.store, quest_id, submitter, proof_hash)]

\* mutant of submit_proof: the duplicate check is missing
submit_proof_no_duplicate_check(s, current_timestamp, quest_id, submitter, proof_hash) ==
    IF ~has_quest(quest_id)
    THEN [err |-> "QuestNotFound", store |-> s]
    ELSE IF ~quest_is_active(get_quest(quest_id))
    THEN [err |-> "InvalidQuestStatus", store |-> s]
    ELSE IF quest_has_expired(current_timestamp, get_quest(quest_id))
    THEN [err |-> "QuestExpired", store |-> s]
    ELSE IF is_zero_hash(proof_hash)
    THEN [err |-> "InvalidProofHash", store |-> s]
    ELSE submit_writes(s, quest_id, submitter, proof_hash, current_timestamp)

\* mutant of submit_proof: the proof hash is validated after the writes
submit_proof_late_hash_check(s, current_timestamp, quest_id, submitter, proof_hash) ==
    IF ~has_quest(quest_id)
    THEN [err |-> "QuestNotFound", store |-> s]
    ELSE IF ~quest_is_active(get_quest(quest_id))
    THEN [err |-> "InvalidQuestStatus", store |-> s]
    ELSE IF quest_has_expired(current_timestamp, get_quest(quest_id))
    THEN [err |-> "QuestExpired", store |-> s]
    ELSE IF submission_exists(s, quest_id, submitter)
    THEN [err |-> "DuplicateSubmission", store |-> s]
    ELSE LET out == submit_writes(s, quest_id, submitter, proof_hash, current_timestamp)
         IN  IF is_zero_hash(proof_hash)
             THEN [err |-> "InvalidProofHash", store |-> out.store]
             ELSE out

\* mutant of submit_proof: the duplicate check comes first
submit_proof_duplicate_first(s, current_timestamp, quest_id, submitter, proof_hash) ==
    IF submission_exists(s, quest_id, submitter)
    THEN [err |-> "DuplicateSubmission", store |-> s]
    ELSE IF ~has_quest(quest_id)
    THEN [err |-> "QuestNotFound", store |-> s]
    ELSE IF ~quest_is_active(get_quest(quest_id))
    THEN [err |-> "InvalidQuestStatus", store |-> s]
    ELSE IF quest_has_expired(current_timestamp, get_quest(quest_id))
    THEN [err |-> "QuestExpired", store |-> s]
    ELSE IF is_zero_hash(proof_hash)
    THEN [err |-> "InvalidProofHash", store |-> s]
    ELSE submit_writes(s, quest_id, submitter, proof_hash, current_timestamp)

\* submit_proof(env, quest_id, submitter, proof_hash) -> Result<(), Error>,
\* run on store s at ledger time current_timestamp
submit_proof(s, current_timestamp, quest_id, submitter, proof_hash) ==
    IF ~has_quest(quest_id)
    THEN [err |-> "QuestNotFound", store |-> s]
    ELSE IF ~quest_is_active(get_quest(quest_id))
    THEN [err |-> "InvalidQuestStatus", store |-> s]
    ELSE IF quest_has_expired(current_timestamp, get_quest(quest_id))
    THEN [err |-> "QuestExpired", store |-> s]
    ELSE IF submission_exists(s, quest_id, submitter)
    THEN [err |-> "DuplicateSubmission", store |-> s]
    ELSE IF is_zero_hash(proof_hash)
    THEN [err |-> "InvalidProofHash", store |-> s]
    ELSE submit_writes(s, quest_id, submitter, proof_hash, current_timestamp)

(***************************************************************************)
(* submission.rs: the read operations                                      *)
(***************************************************************************)
\* get_submission(env, quest_id, submitter) -> Result<Submission, Error>
get_submission(quest_id, submitter) == storage_get_submission(quest_id, submitter)

\* get_user_submissions(env, user) -> Vec<Symbol>
get_user_submissions(user) ==
    [err |-> "Ok", val |-> storage_get_user_submissions(user)]

\* get_quest_submissions(env, quest_id) -> Result<Vec<Submission>, Error>:
\* the placeholder builds an empty Vec and returns Err(Error::Unauthorized)
get_quest_submissions(quest_id) ==
    LET submissions_vec == <<>>
    IN  [err |-> "Unauthorized", val |-> <<>>]

(***************************************************************************)
(* The state machine                                                       *)
(***************************************************************************)
NoArg == "-"
NoHash == <<>>

\* what `last` records of an invocation: the operation, its arguments, the
\* error kind ("Ok" for success), the value returned, and the store the
\* invocation started from
Completed(op, quest_id, user, proof_hash, out) ==
    [op |-> op, quest_id |-> quest_id, user |-> user, proof_hash |-> proof_hash,
     err |-> out.err, val |-> out.val, before |-> CurrentStore]

\* no invocation has just completed: the last step was the host's
Idle == Completed("none", NoArg, NoArg, NoHash, [err |-> "Ok", val |-> <<>>])

\* the invocations whose steps may interleave when isolation is weakened
Invocations == {"i1", "i2"}

\* an invocation that has not begun
NotStarted ==
    [pc |-> "idle", quest_id |-> NoArg, submitter |-> NoArg, proof_hash |-> NoHash,
     current_timestamp |-> 0, err |-> "-"]

Init ==
    /\ clock = 0
    /\ quests \in { [q \in KnownQuests |-> Quest(q, DeadlineOf[q], st[q])] :
                      st \in [KnownQuests -> QuestStatus] }
    /\ submissions = <<>>
    /\ submissions_by_quest = [q \in QuestIds |-> <<>>]
    /\ submissions_by_user = [u \in Users |-> <<>>]
    /\ events = <<>>
    /\ okLog = <<>>
    /\ okArgs = <<>>
    /\ inflight = [i \in Invocations |-> NotStarted]
    /\ last = Idle

\* a top-level submit_proof invocation, run to completion
SubmitProof(quest_id, submitter, proof_hash) ==
    LET out == submit_proof(CurrentStore, clock, quest_id, submitter, proof_hash)
    IN  /\ submissions' = out.store.submissions
        /\ submissions_by_quest' = out.store.submissions_by_quest
        /\ submissions_by_user' = out.store.submissions_by_user
        /\ events' = out.store.events
        /\ okLog' = IF out.err = "Ok" THEN Append(okLog, <<quest_id, submitter>>)
                    ELSE okLog
        /\ okArgs' = IF out.err = "Ok" THEN Append(okArgs, <<proof_hash, clock>>)
                     ELSE okArgs
        /\ last' = Completed("submit_proof", quest_id, submitter, proof_hash,
                             [err |-> out.err, val |-> <<>>])
        /\ UNCHANGED <<clock, quests, inflight>>

GetSubmission(quest_id, submitter) ==
    /\ last' = Completed("get_submission", quest_id, submitter, NoHash,
                         get_submission(quest_id, submitter))
    /\ UNCHANGED <<clock, quests, store, okLog, okArgs, inflight>>

\* mutant of GetUserSubmissions: the list is taken out of the index
GetUserSubmissions_draining(user) ==
    /\ last' = Completed("get_user_submissions", NoArg, user, NoHash,
                         get_user_submissions(user))
    /\ submissions_by_user' = [submissions_by_user EXCEPT ![user] = <<>>]
    /\ UNCHANGED <<clock, quests, submissions, submissions_by_quest, events,
                   okLog, okArgs, inflight>>

GetUserSubmissions(user) ==
    /\ last' = Completed("get_user_submissions", NoArg, user, NoHash,
                         get_user_submissions(user))
    /\ UNCHANGED <<clock, quests, store, okLog, okArgs, inflight>>

GetQuestSubmissions(quest_id) ==
    /\ last' = Completed("get_quest_submissions", quest_id, NoArg, NoHash,
                         get_quest_submissions(quest_id))
    /\ UNCHANGED <<clock, quests, store, okLog, okArgs, inflight>>

\* the host's ledger clock: monotonically non-decreasing
Tick ==
    /\ clock < MaxClock
    /\ clock' = clock + 1
    /\ last' = Idle
    /\ UNCHANGED <<quests, store, okLog, okArgs, inflight>>

\* the quest administration collaborator changes a quest's status; the
\* deadline is fixed at creation
SetQuestStatus(quest_id, status) ==
    /\ quest_id \in DOMAIN quests
    /\ quests[quest_id].status # status
    /\ quests' = [quests EXCEPT ![quest_id].status = status]
    /\ last' = Idle
    /\ UNCHANGED <<clock, store, okLog, okArgs, inflight>>

DoSubmitProof == \E q \in QuestIds, u \in Users, h \in Hashes : SubmitProof(q, u, h)
DoGetSubmission == \E q \in QuestIds, u \in Users : GetSubmission(q, u)
DoGetUserSubmissions == \E u \in Users : GetUserSubmissions(u)
DoGetQuestSubmissions == \E q \in QuestIds : GetQuestSubmissions(q)
DoSetQuestStatus == \E q \in KnownQuests, st \in QuestStatus : SetQuestStatus(q, st)

Next ==
    \/ DoSubmitProof
    \/ DoGetSubmission
    \/ DoGetUserSubmissions
    \/ DoGetQuestSubmissions
    \/ Tick
    \/ DoSetQuestStatus

Spec == Init /\ [][Next]_vars

(***************************************************************************)
(* Observations shared by the properties below.  A submit_proof invocation *)
(* changes neither the clock nor a Quest record, and every step of the     *)
(* host resets `last`: in a state where last.op = "submit_proof", clock    *)
(* and quests are the ones the invocation read, and last.before is the     *)
(* store it started from.                                                  *)
(***************************************************************************)
SubmitDone == last.op = "submit_proof"

\* the quest the completed invocation named has a record
CalledQuestExists == last.quest_id \in DOMAIN quests

\* the submitter already had a submission for the quest when the call began
DuplicateAtCall == <<last.quest_id, last.user>> \in DOMAIN last.before.submissions

\* an earlier call than the one just completed returned Ok for <<q, u>>
OkBefore(q, u) ==
    \E i \in 1..Len(okLog) :
        /\ okLog[i] = <<q, u>>
        /\ (i < Len(okLog) \/ ~SubmitDone \/ last.err # "Ok")

\* the number of calls for <<q, u>> that returned Ok
OkCount(q, u) == Cardinality({i \in 1..Len(okLog) : okLog[i] = <<q, u>>})

\* the number of stored records that name quest q and submitter u
RecordCount(q, u) ==
    Cardinality({k \in DOMAIN submissions :
                    submissions[k].quest_id = q /\ submissions[k].submitter = u})

(***************************************************************************)
(* C1: for every (quest_id, submitter) pair at most one submission record  *)
(* exists and at most one submit_proof call has ever returned Ok.          *)
(***************************************************************************)
C1_AtMostOnePerPair ==
    \A q \in QuestIds, u \in Users :
        /\ RecordCount(q, u) <= 1
        /\ OkCount(q, u) <= 1
        /\ (<<q, u>> \in DOMAIN submissions <=> OkCount(q, u) = 1)

\* a pair that succeeded once was tried again after the clock advanced and
\* the quest's status changed back and forth
C1_Witness ==
    /\ SubmitDone
    /\ OkBefore(last.quest_id, last.user)
    /\ last.proof_hash # zero_hash
    /\ clock > 0
    /\ CalledQuestExists
    /\ quests[last.quest_id].status = "Active"
    /\ OkCount(last.quest_id, last.user) = 1

(***************************************************************************)
(* C2 as stated: once submit_proof(Q, U, _) has returned Ok, every later   *)
(* call with the same pair returns DuplicateSubmission and changes no      *)
(* record and no index.                                                    *)
(***************************************************************************)
C2_AlwaysDuplicateSubmission ==
    (SubmitDone /\ OkBefore(last.quest_id, last.user))
        => (last.err = "DuplicateSubmission" /\ CurrentStore = last.before)

(***************************************************************************)
(* C2 amended: once submit_proof(Q, U, _) has returned Ok, every later     *)
(* call with the same pair fails and changes no record and no index; it    *)
(* fails with DuplicateSubmission when the quest is still Active and       *)
(* unexpired at that call, with InvalidQuestStatus when the quest is no    *)
(* longer Active, and with QuestExpired when it is Active and past its     *)
(* deadline.                                                               *)
(***************************************************************************)
C2_RepeatFails ==
    (SubmitDone /\ OkBefore(last.quest_id, last.user))
        => /\ CalledQuestExists
           /\ CurrentStore = last.before
           /\ last.err =
                IF quests[last.quest_id].status # "Active" THEN "InvalidQuestStatus"
                ELSE IF clock > quests[last.quest_id].deadline THEN "QuestExpired"
                ELSE "DuplicateSubmission"

\* a repeat on a live quest was rejected as a duplicate, with a store that
\* holds records
C2_Witness ==
    /\ SubmitDone
    /\ OkBefore(last.quest_id, last.user)
    /\ last.err = "DuplicateSubmission"
    /\ submissions_by_quest[last.quest_id] = <<"bob", "alice">>
    /\ last.user = "bob"

(***************************************************************************)
(* C3: for an existing quest whose status is Paused, Completed or Expired, *)
(* submit_proof returns InvalidQuestStatus for every submitter, every      *)
(* proof hash, every clock value and with or without a prior submission.   *)
(***************************************************************************)
C3_NotActiveRejected ==
    (/\ SubmitDone
     /\ CalledQuestExists
     /\ quests[last.quest_id].status \in {"Paused", "Completed", "Expired"})
        => last.err = "InvalidQuestStatus"

\* a Completed quest, past its deadline, a submitter who already has a
\* submission, and the all-zero hash
C3_Witness ==
    /\ SubmitDone
    /\ CalledQuestExists
    /\ quests[last.quest_id].status = "Completed"
    /\ clock > quests[last.quest_id].deadline
    /\ DuplicateAtCall
    /\ last.proof_hash = zero_hash
    /\ last.err = "InvalidQuestStatus"

(***************************************************************************)
(* C4: submit_proof with the all-zero proof hash returns InvalidProofHash  *)
(* whenever the quest exists, is Active and unexpired and the submitter    *)
(* has no prior submission; no stored record has the all-zero proof hash.  *)
(***************************************************************************)
C4_ZeroHashRejected ==
    /\ (/\ SubmitDone
        /\ last.proof_hash = zero_hash
        /\ CalledQuestExists
        /\ quests[last.quest_id].status = "Active"
        /\ clock <= quests[last.quest_id].deadline
        /\ ~DuplicateAtCall)
           => last.err = "InvalidProofHash"
    /\ \A k \in DOMAIN submissions : submissions[k].proof_hash # zero_hash

\* the zero hash was rejected on a live quest at its deadline, and the same
\* submitter holds a record for another quest
C4_Witness ==
    /\ SubmitDone
    /\ last.proof_hash = zero_hash
    /\ last.err = "InvalidProofHash"
    /\ clock = quests[last.quest_id].deadline
    /\ \E k \in DOMAIN submissions : k[2] = last.user

(***************************************************************************)
(* C5: when several guards of submit_proof fail at once, the error         *)
(* returned is the first in the order QuestNotFound, InvalidQuestStatus,   *)
(* QuestExpired, DuplicateSubmission, InvalidProofHash.                    *)
(***************************************************************************)
\* the guards that fail for the completed call, as a set of error kinds
FailingGuards ==
    (IF ~CalledQuestExists THEN {"QuestNotFound"} ELSE {})
    \cup (IF CalledQuestExists /\ quests[last.quest_id].status # "Active"
          THEN {"InvalidQuestStatus"} ELSE {})
    \cup (IF CalledQuestExists /\ clock > quests[last.quest_id].deadline
          THEN {"QuestExpired"} ELSE {})
    \cup (IF DuplicateAtCall THEN {"DuplicateSubmission"} ELSE {})
    \cup (IF last.proof_hash = zero_hash THEN {"InvalidProofHash"} ELSE {})

GuardOrder ==
    <<"QuestNotFound", "InvalidQuestStatus", "QuestExpired", "DuplicateSubmission",
      "InvalidProofHash">>

C5_FirstFailingGuard ==
    (SubmitDone /\ FailingGuards # {})
        => \E i \in 1..Len(GuardOrder) :
              /\ last.err = GuardOrder[i]
              /\ GuardOrder[i] \in FailingGuards
              /\ \A j \in 1..(i - 1) : GuardOrder[j] \notin FailingGuards

\* an expired Active quest, a duplicate submitter and a zero hash: QuestExpired
C5_Witness ==
    /\ SubmitDone
    /\ FailingGuards = {"QuestExpired", "DuplicateSubmission", "InvalidProofHash"}
    /\ last.err = "QuestExpired"

(***************************************************************************)
(* C6: for an existing Active quest the deadline gate is inclusive: a call *)
(* made when clock = deadline passes the gate (and succeeds if the         *)
(* submitter is new and the hash is non-zero), a call made when            *)
(* clock > deadline returns QuestExpired.                                  *)
(***************************************************************************)
C6_DeadlineInclusive ==
    (/\ SubmitDone
     /\ CalledQuestExists
     /\ quests[last.quest_id].status = "Active")
        => /\ (clock = quests[last.quest_id].deadline)
                => /\ last.err # "QuestExpired"
                   /\ (~DuplicateAtCall /\ last.proof_hash # zero_hash)
                         => last.err = "Ok"
           /\ (clock > quests[last.quest_id].deadline) => last.err = "QuestExpired"

\* a submission accepted at the very deadline, after the clock has moved
C6_Witness ==
    /\ SubmitDone
    /\ last.err = "Ok"
    /\ clock > 0
    /\ clock = quests[last.quest_id].deadline

(***************************************************************************)
(* C7: every stored submission record for quest Q has timestamp <=         *)
(* Q.deadline, the deadline being the one Q was created with, and the      *)
(* quest existed with status Active when the record was created.           *)
(***************************************************************************)
\* the records the completed invocation created
CreatedByLast == DOMAIN submissions \ DOMAIN last.before.submissions

C7_TimestampWithinDeadline ==
    /\ \A q \in DOMAIN quests : quests[q].deadline = DeadlineOf[q]
    /\ \A k \in DOMAIN submissions :
          /\ k[1] \in DOMAIN quests
          /\ submissions[k].timestamp <= quests[k[1]].deadline
    /\ \A k \in CreatedByLast :
          /\ k[1] \in DOMAIN quests
          /\ quests[k[1]].status = "Active"
          /\ submissions[k].timestamp = clock

\* a record made at the deadline is still there after the quest has expired
\* and been marked Completed
C7_Witness ==
    \E k \in DOMAIN submissions :
        /\ submissions[k].timestamp = quests[k[1]].deadline
        /\ submissions[k].timestamp > 0
        /\ clock > quests[k[1]].deadline
        /\ quests[k[1]].status = "Completed"

(***************************************************************************)
(* C8: whenever submit_proof returns an error, the state after the call    *)
(* equals the state before it: no record is created, no index entry is     *)
(* appended and no event is emitted.                                       *)
(***************************************************************************)
C8_ErrorChangesNothing ==
    (SubmitDone /\ last.err # "Ok") => CurrentStore = last.before

\* a zero hash was rejected on a store that holds two records and two events
C8_Witness ==
    /\ SubmitDone
    /\ last.err = "InvalidProofHash"
    /\ Len(events) = 2
    /\ Cardinality(DOMAIN submissions) = 2

(***************************************************************************)
(* C9: get_user_submissions(U) returns exactly the quest ids on which U's  *)
(* submit_proof returned Ok, each once, in the order those calls           *)
(* succeeded, and the empty sequence for a user with none.                 *)
(***************************************************************************)
\* the quest ids of the calls by user u that returned Ok, in call order
RECURSIVE OkQuestsOf(_, _)
OkQuestsOf(u, n) ==
    IF n = 0 THEN <<>>
    ELSE IF okLog[n][2] = u THEN Append(OkQuestsOf(u, n - 1), okLog[n][1])
    ELSE OkQuestsOf(u, n - 1)

C9_UserListIsOkCalls ==
    /\ \A u \in Users : get_user_submissions(u) =
                            [err |-> "Ok", val |-> OkQuestsOf(u, Len(okLog))]
    /\ last.op = "get_user_submissions"
          => /\ last.err = "Ok"
             /\ last.val = OkQuestsOf(last.user, Len(okLog))
             /\ \A i, j \in 1..Len(last.val) : last.val[i] = last.val[j] => i = j

\* a user who succeeded on q2 and then on q1 is listed in that order, while
\* the other user has no submission
C9_Witness ==
    /\ last.op = "get_user_submissions"
    /\ last.val = <<"q2", "q1">>
    /\ \E u \in Users : get_user_submissions(u).val = <<>>

(***************************************************************************)
(* C10: get_quest_submissions(Q) never fails and returns exactly the       *)
(* submissions of the submitters whose submit_proof on Q returned Ok, in   *)
(* the order those calls succeeded; for a quest with no submissions,       *)
(* including an unknown quest id, it returns the empty sequence.           *)
(***************************************************************************)
\* the records of the calls on quest q that returned Ok, in call order
RECURSIVE OkSubmissionsOf(_, _)
OkSubmissionsOf(q, n) ==
    IF n = 0 THEN <<>>
    ELSE IF okLog[n][1] = q /\ okLog[n] \in DOMAIN submissions
         THEN Append(OkSubmissionsOf(q, n - 1), submissions[okLog[n]])
    ELSE OkSubmissionsOf(q, n - 1)

C10_QuestListIsOkCalls ==
    last.op = "get_quest_submissions"
        => /\ last.err = "Ok"
           /\ last.val = OkSubmissionsOf(last.quest_id, Len(okLog))

(***************************************************************************)
(* C11: after any completed submit_proof call, a submission record exists  *)
(* for (Q, U) if and only if U appears exactly once in                     *)
(* submissions_by_quest[Q] and Q appears exactly once in                   *)
(* submissions_by_user[U]; no record lacks an index entry and no index     *)
(* entry lacks its record.                                                 *)
(***************************************************************************)
\* how often x occurs in the sequence seq
Occurrences(seq, x) == Cardinality({i \in 1..Len(seq) : seq[i] = x})

ExpectedSubmission(q, u) ==
    IF OkCount(q, u) = 0 THEN [err |-> "NotFound", val |-> <<>>]
    ELSE LET i == CHOOSE i \in 1..Len(okLog) : okLog[i] = <<q, u>>
         IN  [err |-> "Ok",
              val |-> << [quest_id |-> q, submitter |-> u,
                          proof_hash |-> okArgs[i][1], status |-> "Pending",
                          timestamp |-> okArgs[i][2]] >>]

C12_GetReturnsWhatWasSubmitted ==
    /\ \A q \in QuestIds, u \in Users : get_submission(q, u) = ExpectedSubmission(q, u)
    /\ last.op = "get_submission"
          => [err |-> last.err, val |-> last.val] =
                 ExpectedSubmission(last.quest_id, last.user)
    /\ (SubmitDone /\ last.err = "Ok")
          => get_submission(last.quest_id, last.user).val =
                 << [quest_id |-> last.quest_id, submitter |-> last.user,
                     proof_hash |-> last.proof_hash, status |-> "Pending",
                     timestamp |-> clock] >>

\* a record read back after the clock has moved on shows the time of the
\* submission, not the time of the read, while another pair is NotFound
C12_Witness ==
    /\ last.op = "get_submission"
    /\ last.err = "Ok"
    /\ last.val[1].timestamp = 1
    /\ clock = 2
    /\ last.val[1].proof_hash = HashLow
    /\ \E q \in KnownQuests, u \in Users : get_submission(q, u).err = "NotFound"

(***************************************************************************)
(* C13: get_submission, get_user_submissions and get_quest_submissions     *)
(* leave every record, index and the event log unchanged, whether they     *)
(* succeed or fail, and a second call with the same arguments and no       *)
(* submit_proof in between returns the same result.                        *)
(***************************************************************************)
ReadDone ==
    last.op \in {"get_submission", "get_user_submissions", "get_quest_submissions"}

\* what the read that has just completed returns when it is called again now
ReadAgain ==
    CASE last.op = "get_submission" -> get_submission(last.quest_id, last.user)
      [] last.op = "get_user_submissions" -> get_user_submissions(last.user)
      [] last.op = "get_quest_submissions" -> get_quest_submissions(last.quest_id)

C14_EventsMatchOkCalls ==
    /\ Len(events) = Len(okLog)
    /\ \A i \in 1..Len(events) :
          /\ i <= Len(okLog)
          /\ events[i] = <<okLog[i][1], okLog[i][2], okArgs[i][1]>>
    /\ (SubmitDone /\ last.err = "Ok")
          => /\ events = Append(last.before.events,
                                <<last.quest_id, last.user, last.proof_hash>>)
             /\ <<last.quest_id, last.user>> \in DOMAIN submissions
             /\ Occurrences(submissions_by_quest[last.quest_id], last.user) = 1
             /\ Occurrences(submissions_by_user[last.user], last.quest_id) = 1
    /\ (SubmitDone /\ last.err # "Ok") => events = last.before.events

\* the third event has just been emitted
C14_Witness ==
    /\ SubmitDone
    /\ last.err = "Ok"
    /\ Len(events) = 3
    /\ events[3] = <<last.quest_id, last.user, HashLow>>

(***************************************************************************)
(* C17: when submit_proof invocations run one after the other, the         *)
(* repository's AlreadyExists is not reachable: every call that passes the *)
(* exists pre-check (and the proof hash check after it) creates its        *)
(* record and returns Ok.                                                  *)
(***************************************************************************)
C17_AlreadyExistsUnreachable ==
    SubmitDone
        => /\ last.err # "AlreadyExists"
           /\ (/\ CalledQuestExists
               /\ quests[last.quest_id].status = "Active"
               /\ clock <= quests[last.quest_id].deadline
               /\ ~DuplicateAtCall
               /\ last.proof_hash # zero_hash)
                  => /\ last.err = "Ok"
                     /\ CreatedByLast = {<<last.quest_id, last.user>>}

\* the last free pair has just been created
C17_Witness ==
    /\ SubmitDone
    /\ last.err = "Ok"
    /\ ~DuplicateAtCall
    /\ Cardinality(DOMAIN submissions) = 4

(***************************************************************************)
(* C20: with a clock that never goes back, the timestamps of stored        *)
(* submissions are non-decreasing in submission order: along               *)
(* get_user_submissions(U) for every user U, and along the submissions of  *)
(* any one quest in the order they were created.                           *)
(***************************************************************************)
C20_TimestampsNonDecreasing ==
    /\ \A u \in Users :
          LET qs == get_user_submissions(u).val
          IN  \A i, j \in 1..Len(qs) :
                 i < j => /\ <<qs[i], u>> \in DOMAIN submissions
                          /\ <<qs[j], u>> \in DOMAIN submissions
                          /\ submissions[<<qs[i], u>>].timestamp
                                <= submissions[<<qs[j], u>>].timestamp
    /\ \A i, j \in 1..Len(okLog) :
          (i < j /\ okLog[i][1] = okLog[j][1])
             => /\ okLog[i] \in DOMAIN submissions
                /\ okLog[j] \in DOMAIN submissions
                /\ submissions[okLog[i]].timestamp <= submissions[okLog[j]].timestamp

\* one user's two submissions, and one quest's two submissions, made at
\* different times
C20_Witness ==
    /\ \E u \in Users :
          LET qs == get_user_submissions(u).val
          IN  /\ Len(qs) = 2
              /\ submissions[<<qs[1], u>>].timestamp < submissions[<<qs[2], u>>].timestamp
    /\ \E q \in KnownQuests :
          /\ Len(submissions_by_quest[q]) = 2
          /\ submissions[<<q, submissions_by_quest[q][1]>>].timestamp
                < submissions[<<q, submissions_by_quest[q][2]>>].timestamp

(***************************************************************************)
(* C15: QuestExpired is terminal for a quest: once a submit_proof call on  *)
(* quest Q has returned QuestExpired, no later submit_proof call on Q, by  *)
(* any submitter with any proof hash, returns Ok.                          *)
(***************************************************************************)
ExpiredReturnedOn(q) == SubmitDone /\ last.quest_id = q /\ last.err = "QuestExpired"
OkReturnedOn(q) == SubmitDone /\ last.quest_id = q /\ last.err = "Ok"

\* the submit_proof invocations, the clock and the quest administrator; the
\* read operations, which change nothing, are left out
NextWrites ==
    \/ DoSubmitProof
    \/ Tick
    \/ DoSetQuestStatus

SpecWrites == Init /\ [][NextWrites]_vars

C15_ExpiredIsTerminal ==
    \A q \in KnownQuests : [](ExpiredReturnedOn(q) => [](~OkReturnedOn(q)))

\* a new submitter with a good hash is turned away from an Active quest that
\* took a submission before its deadline
C15_Witness ==
    /\ SubmitDone
    /\ last.err = "QuestExpired"
    /\ ~DuplicateAtCall
    /\ last.proof_hash # zero_hash
    /\ Len(submissions_by_quest[last.quest_id]) = 1
    /\ clock = MaxClock

(***************************************************************************)
(* The verifier and payout collaborators own Submission.status: Pending    *)
(* becomes Approved or Rejected, Approved becomes Paid.                    *)
(***************************************************************************)
StatusAfter(status) ==
    CASE status = "Pending" -> {"Approved", "Rejected"}
      [] status = "Approved" -> {"Paid"}
      [] OTHER -> {}

ReviewSubmission(quest_id, submitter, status) ==
    /\ <<quest_id, submitter>> \in DOMAIN submissions
    /\ status \in StatusAfter(submissions[<<quest_id, submitter>>].status)
    /\ submissions' = [submissions EXCEPT ![<<quest_id, submitter>>].status = status]
    /\ last' = Idle
    /\ UNCHANGED <<clock, quests, submissions_by_quest, submissions_by_user, events,
                   okLog, okArgs, inflight>>

DoReviewSubmission ==
    \E q \in KnownQuests, u \in Users, st \in SubmissionStatus : ReviewSubmission(q, u, st)

\* submissions and the verifier's reviews while every quest is Active and
\* open (ledger time 0)
InitReview == Init /\ \A q \in KnownQuests : quests[q].status = "Active"

NextReview ==
    \/ DoSubmitProof
    \/ DoReviewSubmission

SpecReview == InitReview /\ [][NextReview]_vars

(***************************************************************************)
(* C16: submit_proof, whether it succeeds or fails, leaves every           *)
(* pre-existing record unchanged: no Quest field (status, deadline,        *)
(* total_claims) is modified and no existing Submission record is          *)
(* overwritten, so a submission that is Approved, Rejected or Paid is      *)
(* never reset to Pending and keeps its proof_hash and timestamp.          *)
(* (Under SpecReview no collaborator touches a Quest record.)              *)
(***************************************************************************)
C16_ExistingRecordsKept ==
    /\ quests = [q \in KnownQuests |-> Quest(q, DeadlineOf[q], "Active")]
    /\ SubmitDone
          => \A k \in DOMAIN last.before.submissions :
                /\ k \in DOMAIN submissions
                /\ submissions[k] = last.before.submissions[k]
    /\ \A i \in 1..Len(okLog) :
          /\ okLog[i] \in DOMAIN submissions
          /\ submissions[okLog[i]].proof_hash = okArgs[i][1]
          /\ submissions[okLog[i]].timestamp = okArgs[i][2]

\* a repeat for a pair whose submission has been paid is turned away, while
\* another submission stands rejected
C16_Witness ==
    /\ SubmitDone
    /\ DuplicateAtCall
    /\ last.err = "DuplicateSubmission"
    /\ submissions[<<last.quest_id, last.user>>].status = "Paid"
    /\ \E k \in DOMAIN submissions : submissions[k].status = "Rejected"

(***************************************************************************)
(* submit_proof statement by statement, for the case that isolation is     *)
(* weakened and the steps of two invocations interleave.  Each storage     *)
(* call is one step, and create is two: its check with the primary write,  *)
(* then its index write.  Nothing undoes the writes of an invocation that  *)
(* stops or fails half way.                                                *)
(***************************************************************************)
\* mutant of WriteOrder: the user index is written before the record
WriteOrder_user_index_first == <<"add_user_submission", "store_submission", "emit">>

\* the statements of submit_proof after the guards, in source order
WriteOrder == <<"store_submission", "add_user_submission", "emit">>

\* the statement that follows statement pc
statement_after(pc) ==
    LET i == CHOOSE i \in 1..Len(WriteOrder) : WriteOrder[i] = pc
    IN  WriteOrder[i + 1]

\* mutant of returns_error: the Result is dropped
returns_error_never(result) == FALSE

\* the `?` after a storage call: an Err is returned to the caller at once
returns_error(result) == result.err # "Ok"

Returned(call, err) == [call EXCEPT !.pc = "returned", !.err = err]

\* lines 14-27: the quest lookup, the status match, the clock and the deadline
StepStart(i, quest_id, submitter, proof_hash) ==
    LET call == [pc |-> "submission_exists", quest_id |-> quest_id,
                 submitter |-> submitter, proof_hash |-> proof_hash,
                 current_timestamp |-> clock, err |-> "-"]
    IN  /\ inflight[i].pc = "idle"
        /\ inflight' = [inflight EXCEPT ![i] =
              IF ~has_quest(quest_id) THEN Returned(call, "QuestNotFound")
              ELSE IF ~quest_is_active(get_quest(quest_id))
              THEN Returned(call, "InvalidQuestStatus")
              ELSE IF quest_has_expired(clock, get_quest(quest_id))
              THEN Returned(call, "QuestExpired")
              ELSE call]
        /\ UNCHANGED <<clock, quests, store, okLog, okArgs, last>>

\* lines 29-38: the exists pre-check and the proof hash check
StepCheckDuplicate(i) ==
    LET call == inflight[i]
    IN  /\ call.pc = "submission_exists"
        /\ inflight' = [inflight EXCEPT ![i] =
              IF submission_exists(CurrentStore, call.quest_id, call.submitter)
              THEN Returned(call, "DuplicateSubmission")
              ELSE IF is_zero_hash(call.proof_hash)
              THEN Returned(call, "InvalidProofHash")
              ELSE [call EXCEPT !.pc = WriteOrder[1]]]
        /\ UNCHANGED <<clock, quests, store, okLog, okArgs, last>>

\* lines 49-50, first write of create and the `?`
StepCreate(i) ==
    LET call == inflight[i]
        created == create_primary(CurrentStore,
                       new_submission(call.quest_id, call.submitter, call.proof_hash,
                                      call.current_timestamp))
    IN  /\ call.pc = "store_submission"
        /\ submissions' = created.store.submissions
        /\ inflight' = [inflight EXCEPT ![i] =
              IF created.err = "Ok" THEN [call EXCEPT !.pc = "store_submission_index"]
              ELSE IF returns_error(created) THEN Returned(call, created.err)
              ELSE [call EXCEPT !.pc = statement_after("store_submission")]]
        /\ UNCHANGED <<clock, quests, submissions_by_quest, submissions_by_user,
                       events, okLog, okArgs, last>>

\* lines 49-50, second write of create
StepIndexQuest(i) ==
    LET call == inflight[i]
    IN  /\ call.pc = "store_submission_index"
        /\ submissions_by_quest' =
              create_index_quest(CurrentStore, call.quest_id,
                                 call.submitter).submissions_by_quest
        /\ inflight' = [inflight EXCEPT ![i].pc = statement_after("store_submission")]
        /\ UNCHANGED <<clock, quests, submissions, submissions_by_user, events,
                       okLog, okArgs, last>>

\* lines 52-53
StepAddUserSubmission(i) ==
    LET call == inflight[i]
        added == add_user_submission(CurrentStore, call.submitter, call.quest_id)
    IN  /\ call.pc = "add_user_submission"
        /\ submissions_by_user' = added.store.submissions_by_user
        /\ inflight' = [inflight EXCEPT ![i] =
              IF returns_error(added) THEN Returned(call, added.err)
              ELSE [call EXCEPT !.pc = statement_after("add_user_submission")]]
        /\ UNCHANGED <<clock, quests, submissions, submissions_by_quest, events,
                       okLog, okArgs, last>>

\* lines 55-64: the event and Ok(())
StepEmit(i) ==
    LET call == inflight[i]
    IN  /\ call.pc = "emit"
        /\ events' = emit(CurrentStore, call.quest_id, call.submitter,
                          call.proof_hash).events
        /\ okLog' = Append(okLog, <<call.quest_id, call.submitter>>)
        /\ okArgs' = Append(okArgs, <<call.proof_hash, call.current_timestamp>>)
        /\ inflight' = [inflight EXCEPT ![i] = Returned(call, "Ok")]
        /\ UNCHANGED <<clock, quests, submissions, submissions_by_quest,
                       submissions_by_user, last>>

DoStepStart ==
    \E i \in Invocations, q \in QuestIds, u \in Users, h \in Hashes : StepStart(i, q, u, h)
DoStepCheckDuplicate == \E i \in Invocations : StepCheckDuplicate(i)
DoStepCreate == \E i \in Invocations : StepCreate(i)
DoStepIndexQuest == \E i \in Invocations : StepIndexQuest(i)
DoStepAddUserSubmission == \E i \in Invocations : StepAddUserSubmission(i)
DoStepEmit == \E i \in Invocations : StepEmit(i)

NextSteps ==
    \/ DoStepStart
    \/ DoStepCheckDuplicate
    \/ DoStepCreate
    \/ DoStepIndexQuest
    \/ DoStepAddUserSubmission
    \/ DoStepEmit

SpecSteps == InitReview /\ [][NextSteps]_vars

\* invocations that returned Ok for the pair
OkInvocations(q, u) ==
    {i \in Invocations : /\ inflight[i].err = "Ok"
                         /\ inflight[i].quest_id = q
                         /\ inflight[i].submitter = u}

\* both invocations were called for the same pair and both passed the exists
\* pre-check: the second one was stopped by create
RaceOnCreate ==
    \E i, j \in Invocations :
        /\ inflight[i].err = "Ok"
        /\ inflight[j].err = "AlreadyExists"
        /\ inflight[i].quest_id = inflight[j].quest_id
        /\ inflight[i].submitter = inflight[j].submitter

\* C18: when the steps of two submit_proof invocations interleave, at most one
\* invocation per (quest_id, submitter) returns Ok, at most one record exists
\* for the pair, and each index holds at most one entry for it.
C18_InterleavedAtMostOne ==
    \A q \in QuestIds, u \in Users :
        /\ Cardinality(OkInvocations(q, u)) <= 1
        /\ OkCount(q, u) <= 1
        /\ RecordCount(q, u) <= 1
        /\ Occurrences(submissions_by_quest[q], u) <= 1
        /\ Occurrences(submissions_by_user[u], q) <= 1

C18_Witness == RaceOnCreate

\* the entries of the two indexes, as keys of primary records
QuestIndexEntries ==
    UNION {{<<q, submissions_by_quest[q][k]>> : k \in 1..Len(submissions_by_quest[q])} :
              q \in QuestIds}

UserIndexEntries ==
    UNION {{<<submissions_by_user[u][k], u>> : k \in 1..Len(submissions_by_user[u])} :
              u \in Users}

\* what is written for the pair of invocation i: record, quest index, user index
WrittenFor(i) ==
    LET key == <<inflight[i].quest_id, inflight[i].submitter>>
    IN  <<key \in DOMAIN submissions, key \in QuestIndexEntries,
          key \in UserIndexEntries>>

====
